---- MODULE Spec2Model ----
(***************************************************************************)
(* A model of class WeatheringMap (src/WeatherMap.js).                     *)
(*                                                                         *)
(* Numbers.  The JavaScript numbers are IEEE doubles; here they are fixed  *)
(* point integers:                                                         *)
(*   - lengths (elevation, cellSize, radius) in units of 1/Scale metre;    *)
(*   - rates and factors in [0,1.5] in units of 1/RateScale;               *)
(*   - slopeFactor-like multipliers in units of 1/1000;                    *)
(*   - slopes in whole degrees, rounded down.                              *)
(* null is the empty tuple, a present value v the 1-tuple <<v>>.           *)
(***************************************************************************)
EXTENDS Integers, Sequences, FiniteSets, TLC

VARIABLES
    datasets,         \* this.datasets: elevation, geology, climate, vegetation
    weatheringRates,  \* this.weatheringRates: physical, chemical, biological
    heap,             \* the elevationData arrays, by reference
    loadPc,           \* position of the loadDatasets call in flight (0: none)
    pc,               \* position of the synchronous projection call
    queue,            \* the time steps the running call still has to project
    weatheredTerrain, \* the local weatheredTerrain of projectWeathering
    models,           \* the local models of generateWeatheringModels
    passStart,        \* elevationData of weatheredTerrain when the last pass began
    slopeSeen,        \* the slope the last pass computed for each cell
    flowAccumulation, \* the local flowAccumulation of simulateErosion
    lastError,        \* how the last public call ended
    prior,            \* the last terrain returned under the present datasets and rates
    maxYearsArg,      \* argument of the last determineTimeSteps call
    stepsRet,         \* its result
    compArg,          \* the mineralComposition object under construction
    reactRet          \* result of calculateMineralReactivity(compArg)

vars == <<datasets, weatheringRates, heap, loadPc, pc, queue, weatheredTerrain,
          models, passStart, slopeSeen, flowAccumulation, lastError, prior,
          maxYearsArg, stepsRet, compArg, reactRet>>

sessionVars == <<datasets, weatheringRates, heap, loadPc, pc, queue, weatheredTerrain,
                 models, passStart, slopeSeen, flowAccumulation, lastError, prior>>

pureVars == <<maxYearsArg, stepsRet, compArg, reactRet>>

----------------------------------------------------------------------------
(* Bounds and scales *)

\* side of the square elevation grid (50 in fetchElevationData)
gridSize == 4

\* most entries of a mineralComposition object
MaxMinerals == 3

\* determineTimeSteps is tried on every maxYears in -2 .. MaxYearsProbe
MaxYearsProbe == 110

Scale == 10 ^ 4

RateScale == 10 ^ 5

Null == <<>>

Some(v) == <<v>>

Abs(n) == IF n < 0 THEN -n ELSE n

Min(a, b) == IF a <= b THEN a ELSE b

Max(a, b) == IF a >= b THEN a ELSE b

\* the member of a one-element set; {F(v) : v \in {e}} has F applied to the
\* value of e, so a loop's state is computed before the next iteration starts
Only(S) == CHOOSE v \in S : TRUE

\* null coerced to a number by the arithmetic operators
ToNumber(v) == IF v = Null THEN 0 ELSE v[1]

\* one hexadecimal digit of the root: the largest r = lo + d * step, d in
\* 0..15, with r * r <= n (46340 is the largest root of a 32-bit square)
ISqrtDigit(n, lo, step) ==
    lo + step * Cardinality({d \in 1..15 :
                               /\ lo + d * step <= 46340
                               /\ (lo + d * step) * (lo + d * step) <= n})

\* Math.sqrt, rounded down
ISqrt(n) ==
    ISqrtDigit(n, ISqrtDigit(n, ISqrtDigit(n, ISqrtDigit(n, 0, 4096), 256), 16), 1)

\* Math.sqrt(accumulation) in hundredths
Sqrt100(a) == ISqrt(a * 10000)

\* 1000 * tan(d degrees), d = 1 .. 89
TanTable ==
    << 17, 34, 52, 69, 87, 105, 122, 140, 158, 176, 194, 212, 230, 249, 267,
       286, 305, 324, 344, 363, 383, 404, 424, 445, 466, 487, 509, 531, 554,
       577, 600, 624, 649, 674, 700, 726, 753, 781, 809, 839, 869, 900, 932,
       965, 1000, 1035, 1072, 1110, 1150, 1191, 1234, 1279, 1327, 1376, 1428,
       1482, 1539, 1600, 1664, 1732, 1804, 1880, 1962, 2050, 2144, 2246, 2355,
       2475, 2605, 2747, 2904, 3077, 3270, 3487, 3732, 4010, 4331, 4704, 5144,
       5671, 6313, 7115, 8144, 9514, 11430, 14300, 19081, 28636, 57289 >>

\* Math.atan(t) * (180 / Math.PI) for t = tan1000 / 1000, in whole degrees
AtanDegrees(tan1000) ==
    Cardinality({d \in 1..Len(TanTable) : TanTable[d] <= tan1000})

----------------------------------------------------------------------------
(* EnvironmentalRateModel: lines 65-146 *)

RockHardnessIndex(rockType) ==
    CASE rockType = "granite"   -> 2
      [] rockType = "limestone" -> 6
      [] rockType = "sandstone" -> 8
      [] rockType = "shale"     -> 9
      [] OTHER                  -> 5

\* (tempFactor*0.4 + freezeThawFactor*0.4 + precipFactor*0.2) * hardness
CalculatePhysicalWeathering(tempRange, freezeThawCycles, precipitation, rockType) ==
    (100 * tempRange + 40 * freezeThawCycles + precipitation)
        * RockHardnessIndex(rockType)

\* the own properties of the reactivityIndex literal, in tenths
ReactivityTable ==
    [quartz |-> 1, feldspar |-> 7, mica |-> 5, calcite |-> 9, dolomite |-> 8]

\* property names every object literal inherits from Object.prototype
InheritedNames == {"constructor", "toString"}

\* reactivityIndex[mineral]: an own number, an inherited function, or undefined
ReactivityLookup(mineral) ==
    IF mineral \in DOMAIN ReactivityTable
    THEN [kind |-> "number", val |-> ReactivityTable[mineral]]
    ELSE IF mineral \in InheritedNames
         THEN [kind |-> "function", val |-> 0]
         ELSE [kind |-> "undefined", val |-> 0]

\* the loop of lines 119-124 over Object.entries(mineralComposition);
\* acc = [r: totalReactivity (1/100), p: totalPercentage (1/10), nan: r is NaN]
RECURSIVE ReactivityLoop(_, _)
ReactivityLoop(entries, acc) ==
    IF entries = <<>> THEN acc
    ELSE LET mineral    == Head(entries)[1]
             percentage == Head(entries)[2]
             looked     == ReactivityLookup(mineral)
         IN  IF looked.kind = "undefined"
             THEN ReactivityLoop(Tail(entries), acc)
             ELSE ReactivityLoop(Tail(entries),
                    [r   |-> acc.r + looked.val * percentage,
                     p   |-> acc.p + percentage,
                     nan |-> acc.nan \/ looked.kind = "function"])

\* the result as [nan, val]: val in 1/RateScale, meaningful when ~nan
CalculateMineralReactivity(mineralComposition) ==
    LET tot == ReactivityLoop(mineralComposition, [r |-> 0, p |-> 0, nan |-> FALSE])
    IN  IF tot.p > 0
        THEN [nan |-> tot.nan,
              val |-> IF tot.nan THEN 0 ELSE (tot.r * (RateScale \div 10)) \div tot.p]
        ELSE [nan |-> FALSE, val |-> RateScale \div 2]

\* pH is given in tenths
CalculateChemicalWeathering(precipitation, temperature, mineralComposition, pH10) ==
    LET tempFactor    == Min((temperature * RateScale) \div 30, RateScale)
        precipFactor  == Min((precipitation * RateScale) \div 2000, RateScale)
        mineralFactor == CalculateMineralReactivity(mineralComposition).val
        pHFactor      == (Abs(pH10 - 70) * RateScale) \div 70
    IN  (3 * tempFactor + 3 * precipFactor + 3 * mineralFactor + pHFactor) \div 10

CalculateBiologicalWeathering(vegetationCoverage, rootDepth, temperature) ==
    LET coverageFactor == (vegetationCoverage * RateScale) \div 100
        rootFactor     == (rootDepth * RateScale) \div 10
        tempFactor     == RateScale - (Abs(temperature - 25) * RateScale) \div 25
    IN  (4 * coverageFactor + 3 * rootFactor + 3 * tempFactor) \div 10

\* the three rates times the weights; the division by 1000 is in WeatheringIntensity
CalculateTotalWeatheringRate(rates) ==
    (4 * ToNumber(rates.physical) + 4 * ToNumber(rates.chemical)
       + 2 * ToNumber(rates.biological)) \div 10

----------------------------------------------------------------------------
(* determineTimeSteps: lines 166-174 *)

\* the filter with a strict comparison
FilterStepsStrict(ladder, maxYears) ==
    SelectSeq(ladder, LAMBDA t : t < maxYears)

\* Array.prototype.filter(t => t <= maxYears)
FilterSteps(ladder, maxYears) ==
    SelectSeq(ladder, LAMBDA t : t <= maxYears)

DetermineTimeSteps(maxYears) ==
    IF maxYears <= 100
    THEN FilterSteps(<<0, 10, 25, 50, 100>>, maxYears)
    ELSE IF maxYears <= 1000
         THEN FilterSteps(<<0, 100, 250, 500, 1000>>, maxYears)
         ELSE FilterSteps(<<0, 1000, 5000, 10000, 50000, 100000>>, maxYears)

----------------------------------------------------------------------------
(* The external collaborators: lines 410-492.  The source's fetchers are     *)
(* mocks standing for API calls; each returns one of a few records, the      *)
(* first of which is the mock's own.                                         *)

\* radius arguments of loadDatasets, in length units
Radii == {2 * Scale}

\* the hill-plus-noise surfaces fetchElevationData may return
Shapes == {"plateau", "ridge"}

ShapeElevation(shape, x, y) ==
    CASE shape = "plateau" -> 600 * Scale
      [] shape = "ridge"   -> 100 * Scale + 600 * x * x + 300 * y

\* the terrain record, its elevationData still a value (rows y, columns x)
FetchElevationData(radius, shape) ==
    [width         |-> gridSize,
     height        |-> gridSize,
     cellSize      |-> (radius * 2) \div gridSize,
     elevationData |-> [y \in 1..gridSize |->
                          [x \in 1..gridSize |-> ShapeElevation(shape, x - 1, y - 1)]]]

\* mineralComposition is the sequence Object.entries gives, abundances in tenths
FetchGeologyData ==
    { [rockType |-> "limestone",
       mineralComposition |-> << <<"calcite", 8>>, <<"quartz", 1>>, <<"feldspar", 1>> >>],
      [rockType |-> "basalt",
       mineralComposition |-> << >>] }

FetchClimateData ==
    { [temperature |-> 15, tempRange |-> 25, precipitation |-> 1000,
       freezeThawCycles |-> 30, pH10 |-> 65] }

FetchVegetationData ==
    { [coverage |-> 70, rootDepth |-> 3] }

----------------------------------------------------------------------------
(* TerrainSampler: lines 255-293.  h is the heap of elevationData arrays,    *)
(* ds is this.datasets; terrain[y][x] is terrain[y + 1][x + 1] here.         *)

BaseTerrain(h, ds) == h[ds.elevation[1].elevationData]

IsEdge(terrain, x, y) ==
    x = 0 \/ y = 0 \/ x = Len(terrain[1]) - 1 \/ y = Len(terrain) - 1

\* slope in whole degrees of the grid `terrain` with cell size cellSize
SlopeOf(terrain, cellSize, x, y) ==
    IF IsEdge(terrain, x, y) THEN 0
    ELSE LET dx == terrain[y + 1][x + 2] - terrain[y + 1][x]
             dy == terrain[y + 2][x + 1] - terrain[y][x + 1]
         IN  AtanDegrees((ISqrt(dx * dx + dy * dy) * 1000) \div (2 * cellSize))

\* calculateSlope(x, y) reads this.datasets.elevation, whatever grid is simulated
CalculateSlope(h, ds, x, y) ==
    SlopeOf(BaseTerrain(h, ds), ds.elevation[1].cellSize, x, y)

\* 1000 * Math.sin(calculateAspect(x, y)): sin(atan2(-dz_dy, dz_dx))
CalculateAspectSin(h, ds, x, y) ==
    LET terrain == BaseTerrain(h, ds)
    IN  IF IsEdge(terrain, x, y) THEN 0
        ELSE LET dx == terrain[y + 1][x + 2] - terrain[y + 1][x]
                 dy == terrain[y + 2][x + 1] - terrain[y][x + 1]
                 g  == ISqrt(dx * dx + dy * dy)
             IN  IF g = 0 THEN 0 ELSE ((-dy) * 1000) \div g

----------------------------------------------------------------------------
(* WeatheringProjector: lines 180-250, 401-408 *)

\* the elevation factor ignoring the altitude
CalculateElevationFactorLow(elevation) == 1000

\* 1000 * calculateElevationFactor(elevation); baseElevation = 500
CalculateElevationFactor(elevation) ==
    IF elevation < 500 * Scale THEN 1000
    ELSE 1000 + (elevation - 500 * Scale) \div (4 * Scale)

\* years * totalWeatheringRate, in length units (the rate carries the / 1000)
WeatheringIntensity(years, totalWeatheringRate) ==
    (years * totalWeatheringRate) \div ((RateScale \div Scale) * 1000)

CalculateCellWeathering(h, ds, x, y, baseWeatheringIntensity) ==
    LET slope           == CalculateSlope(h, ds, x, y)
        elevation       == BaseTerrain(h, ds)[y + 1][x + 1]
        aspectFactor    == 1000 + CalculateAspectSin(h, ds, x, y) \div 5
        elevationFactor == CalculateElevationFactor(elevation)
        bySlope         == (baseWeatheringIntensity * (45 + slope)) \div 45
        byAspect        == (bySlope * aspectFactor) \div 1000
    IN  (byAspect * elevationFactor) \div 1000

NewRef(h) ==
    CHOOSE r \in 1..(Cardinality(DOMAIN h) + 1) :
        /\ r \notin DOMAIN h
        /\ \A q \in 1..(r - 1) : q \in DOMAIN h

\* the clone sharing the original's array instead of copying it
CloneElevationDataShared(h, ref) ==
    [heap |-> h, ref |-> ref]

\* JSON.parse(JSON.stringify(elevationData)): a fresh array of equal numbers
CloneElevationData(h, ref) ==
    LET r == NewRef(h)
    IN  [heap |-> h @@ (r :> h[ref]), ref |-> r]

CloneTerrainModel(h, originalTerrain) ==
    LET copy == CloneElevationData(h, originalTerrain.elevationData)
    IN  [heap    |-> copy.heap,
         terrain |-> [width         |-> originalTerrain.width,
                      height        |-> originalTerrain.height,
                      cellSize      |-> originalTerrain.cellSize,
                      elevationData |-> copy.ref]]

\* the inner loop of lines 190-193: the cells y .. height - 1 of column x
RECURSIVE WeatherColumn(_, _, _, _, _, _, _)
WeatherColumn(h, ds, ref, intensity, x, y, height) ==
    IF y >= height THEN h
    ELSE LET cellWeathering == CalculateCellWeathering(h, ds, x, y, intensity)
             written == [h EXCEPT ![ref][y + 1][x + 1] = @ - cellWeathering]
         IN  Only({WeatherColumn(h2, ds, ref, intensity, x, y + 1, height) :
                      h2 \in {written}})

\* the outer loop of lines 189-194: the columns x .. width - 1
RECURSIVE WeatherLoop(_, _, _, _, _, _, _)
WeatherLoop(h, ds, ref, intensity, x, width, height) ==
    IF x >= width THEN h
    ELSE Only({WeatherLoop(h2, ds, ref, intensity, x + 1, width, height) :
                  h2 \in {WeatherColumn(h, ds, ref, intensity, x, 0, height)}})

----------------------------------------------------------------------------
(* ErosionSimulator: lines 298-396 *)

\* seeds of the flow direction fields Math.random may produce
FlowSeeds == {0, 5}

\* one field of octants Math.floor(Math.random() * 8) per cell
CalculateFlowDirections(terrainModel, seed) ==
    [y \in 1..terrainModel.height |->
        [x \in 1..terrainModel.width |-> (seed + 3 * x + 5 * y) % 8]]

\* an accumulation that counts the cell's flow direction in
CalculateFlowAccumulationByDirection(flowDirections, terrainModel) ==
    [y \in 1..terrainModel.height |->
        [x \in 1..terrainModel.width |-> 1 + flowDirections[y][x]]]

\* Array(height).fill().map(() => Array(width).fill(1))
CalculateFlowAccumulation(flowDirections, terrainModel) ==
    [y \in 1..terrainModel.height |-> [x \in 1..terrainModel.width |-> 1]]

\* 10 * erosionRate, in length units
ErosionRate(years) == 5 * years

\* a deposition rate that counts a decade before the projection starts
DepositionRateFromDecadeBefore(years) == 2 * (years + 10)

\* 10 * depositionRate, in length units
DepositionRate(years) == 2 * years

ErosionAmount(years, accumulation, slope) ==
    (ErosionRate(years) * Sqrt100(accumulation) * slope) \div (10 * 100 * 45)

DepositionAmount(years, accumulation, slope) ==
    (DepositionRate(years) * Sqrt100(accumulation) * (90 - slope)) \div (10 * 100 * 90)

\* the inner loop of lines 363-372: the cells x .. width - 1 of row y;
\* acc = [heap, slopes: the slope computed for each cell visited]
RECURSIVE ErosionRow(_, _, _, _, _, _, _, _)
ErosionRow(acc, ds, ref, accumulation, years, x, y, width) ==
    IF x >= width THEN acc
    ELSE LET slope == CalculateSlope(acc.heap, ds, x, y)
             erosionAmount == ErosionAmount(years, accumulation[y + 1][x + 1], slope)
             written ==
                 [heap   |-> [acc.heap EXCEPT ![ref][y + 1][x + 1] = @ - erosionAmount],
                  slopes |-> acc.slopes @@ (<<x, y>> :> slope)]
         IN  Only({ErosionRow(acc2, ds, ref, accumulation, years, x + 1, y, width) :
                      acc2 \in {written}})

\* the outer loop of lines 362-373: the rows y .. height - 1
RECURSIVE ErosionLoop(_, _, _, _, _, _, _, _)
ErosionLoop(acc, ds, ref, accumulation, years, y, width, height) ==
    IF y >= height THEN acc
    ELSE Only({ErosionLoop(acc2, ds, ref, accumulation, years, y + 1, width, height) :
                  acc2 \in {ErosionRow(acc, ds, ref, accumulation, years, 0, y, width)}})

ApplyErosion(h, ds, terrainModel, accumulation, years) ==
    ErosionLoop([heap |-> h, slopes |-> << >>], ds, terrainModel.elevationData,
                accumulation, years, 0, terrainModel.width, terrainModel.height)

\* the deposition without its flatness guard
DepositsEverywhere(slope) == TRUE

\* the guard of line 391
DepositsAt(slope) == slope < 10

\* the inner loop of lines 383-394: the cells x .. width - 1 of row y
RECURSIVE DepositionRow(_, _, _, _, _, _, _, _)
DepositionRow(acc, ds, ref, accumulation, years, x, y, width) ==
    IF x >= width THEN acc
    ELSE LET slope == CalculateSlope(acc.heap, ds, x, y)
             depositionAmount ==
                 DepositionAmount(years, accumulation[y + 1][x + 1], slope)
             h2 == IF DepositsAt(slope)
                   THEN [acc.heap EXCEPT
                           ![ref][y + 1][x + 1] = @ + Max(0, depositionAmount)]
                   ELSE acc.heap
             written == [heap |-> h2, slopes |-> acc.slopes @@ (<<x, y>> :> slope)]
         IN  Only({DepositionRow(acc2, ds, ref, accumulation, years, x + 1, y, width) :
                      acc2 \in {written}})

\* the outer loop of lines 382-395: the rows y .. height - 1
RECURSIVE DepositionLoop(_, _, _, _, _, _, _, _)
DepositionLoop(acc, ds, ref, accumulation, years, y, width, height) ==
    IF y >= height THEN acc
    ELSE Only({DepositionLoop(acc2, ds, ref, accumulation, years, y + 1, width, height) :
                  acc2 \in {DepositionRow(acc, ds, ref, accumulation, years, 0, y, width)}})

ApplyDeposition(h, ds, terrainModel, accumulation, years) ==
    DepositionLoop([heap |-> h, slopes |-> << >>], ds, terrainModel.elevationData,
                   accumulation, years, 0, terrainModel.width, terrainModel.height)

----------------------------------------------------------------------------
(* The session: constructor, loadDatasets, calculateWeatheringRates *)

NoRates == [physical |-> Null, chemical |-> Null, biological |-> Null]

NoDatasets == [elevation |-> Null, geology |-> Null, climate |-> Null, vegetation |-> Null]

\* years arguments of the public projectWeathering(years)
ProjectYears == {0, 10, 1000}

\* years arguments of generateWeatheringModels(years)
GenerateYears == {-1, 10}

\* maxYears arguments determineTimeSteps is tried on
MaxYearsSet ==
    (-2..MaxYearsProbe)
      \cup {249, 250, 251, 499, 500, 501, 999, 1000, 1001, 4999, 5000, 5001,
            9999, 10000, 50000, 99999, 100000, 100001}

\* property names a mineralComposition may carry, and abundances in tenths
MineralNames ==
    {"quartz", "feldspar", "mica", "calcite", "dolomite", "gypsum", "constructor"}

Abundances == {0, 2, 5}

\* the state the constructor leaves: lines 5-18
Init ==
    /\ datasets = NoDatasets
    /\ weatheringRates = NoRates
    /\ heap = << >>
    /\ loadPc = 0
    /\ pc = "idle"
    /\ queue = << >>
    /\ weatheredTerrain = Null
    /\ models = << >>
    /\ passStart = Null
    /\ slopeSeen = << >>
    /\ flowAccumulation = Null
    /\ lastError = "none"
    /\ prior = Null
    /\ maxYearsArg = 0
    /\ stepsRet = Null
    /\ compArg = << >>
    /\ reactRet = Null

\* calculateWeatheringRates on datasets ds: the rates it leaves and how it ends.
\* The arguments of each call are read before the assignment, so a null
\* dataset throws before the rate of that line is written.
RatesAfter(ds, rates) ==
    IF ds.climate = Null \/ ds.geology = Null
    THEN [rates |-> rates, error |-> "TypeError"]
    ELSE LET climate == ds.climate[1]
             geology == ds.geology[1]
             physical == CalculatePhysicalWeathering(
                             climate.tempRange, climate.freezeThawCycles,
                             climate.precipitation, geology.rockType)
             chemical == CalculateChemicalWeathering(
                             climate.precipitation, climate.temperature,
                             geology.mineralComposition, climate.pH10)
             two == [rates EXCEPT !.physical = Some(physical),
                                  !.chemical = Some(chemical)]
         IN  IF ds.vegetation = Null
             THEN [rates |-> two, error |-> "TypeError"]
             ELSE LET vegetation == ds.vegetation[1]
                      biological == CalculateBiologicalWeathering(
                                        vegetation.coverage, vegetation.rootDepth,
                                        climate.temperature)
                  IN  [rates |-> [two EXCEPT !.biological = Some(biological)],
                       error |-> "none"]

Idle == pc = "idle"

projectionVars ==
    <<pc, queue, weatheredTerrain, models, passStart, slopeSeen, flowAccumulation>>

\* loadDatasets is called: line 26, up to the first await
LoadDatasets ==
    /\ Idle /\ loadPc = 0
    /\ loadPc' = 1
    /\ UNCHANGED <<datasets, weatheringRates, heap, lastError, prior,
                   projectionVars, pureVars>>

\* line 28 resumes with the elevation data
ResumeElevation ==
    /\ Idle /\ loadPc = 1
    /\ \E radius \in Radii, shape \in Shapes :
         LET fetched == FetchElevationData(radius, shape)
             r       == NewRef(heap)
         IN  /\ datasets' = [datasets EXCEPT !.elevation =
                                Some([fetched EXCEPT !.elevationData = r])]
             /\ heap' = (r :> fetched.elevationData)
    /\ loadPc' = 2
    /\ prior' = Null
    /\ UNCHANGED <<weatheringRates, lastError, projectionVars, pureVars>>

\* line 29 resumes with the geology data
ResumeGeology ==
    /\ Idle /\ loadPc = 2
    /\ \E g \in FetchGeologyData : datasets' = [datasets EXCEPT !.geology = Some(g)]
    /\ loadPc' = 3
    /\ prior' = Null
    /\ UNCHANGED <<weatheringRates, heap, lastError, projectionVars, pureVars>>

\* line 30 resumes with the climate data
ResumeClimate ==
    /\ Idle /\ loadPc = 3
    /\ \E c \in FetchClimateData : datasets' = [datasets EXCEPT !.climate = Some(c)]
    /\ loadPc' = 4
    /\ prior' = Null
    /\ UNCHANGED <<weatheringRates, heap, lastError, projectionVars, pureVars>>

\* line 31 resumes with the vegetation data, then line 34 computes the rates
ResumeVegetation ==
    /\ Idle /\ loadPc = 4
    /\ \E v \in FetchVegetationData :
         LET ds == [datasets EXCEPT !.vegetation = Some(v)]
         IN  /\ datasets' = ds
             /\ weatheringRates' = RatesAfter(ds, weatheringRates).rates
    /\ loadPc' = 0
    /\ prior' = Null
    /\ UNCHANGED <<heap, lastError, projectionVars, pureVars>>

\* a caller invokes the public calculateWeatheringRates: lines 40-63
CalculateWeatheringRates ==
    /\ Idle
    /\ LET after == RatesAfter(datasets, weatheringRates)
       IN  /\ weatheringRates' = after.rates
           /\ lastError' = after.error
    /\ prior' = Null
    /\ UNCHANGED <<datasets, heap, loadPc, projectionVars, pureVars>>

----------------------------------------------------------------------------
(* The projection.  A call runs to completion: no other action is enabled   *)
(* while pc is not "idle".  Its passes are steps so that the grid between   *)
(* two passes is a state.                                                   *)

\* generateWeatheringModels(years) is called: lines 152-155
GenerateWeatheringModels ==
    /\ Idle
    /\ \E years \in GenerateYears :
         /\ queue' = DetermineTimeSteps(years)
         /\ pc' = IF DetermineTimeSteps(years) = << >> THEN "idle" ELSE "project"
    /\ models' = << >>
    /\ lastError' = "none"
    /\ UNCHANGED <<datasets, weatheringRates, heap, loadPc, weatheredTerrain,
                   passStart, slopeSeen, flowAccumulation, prior, pureVars>>

\* projectWeathering(years) is called by a caller of the class
ProjectWeathering ==
    /\ Idle
    /\ \E years \in ProjectYears : queue' = <<years>>
    /\ pc' = "project"
    /\ models' = << >>
    /\ lastError' = "none"
    /\ UNCHANGED <<datasets, weatheringRates, heap, loadPc, weatheredTerrain,
                   passStart, slopeSeen, flowAccumulation, prior, pureVars>>

\* lines 182-194: the clone and the weathering loop; a null elevation dataset
\* throws in cloneTerrainModel and the exception ends the call
CloneAndWeather ==
    /\ pc = "project"
    /\ IF datasets.elevation = Null
       THEN /\ lastError' = "TypeError"
            /\ pc' = "idle"
            /\ queue' = << >>
            /\ models' = << >>
            /\ UNCHANGED <<heap, weatheredTerrain, passStart, slopeSeen>>
       ELSE LET cloned    == CloneTerrainModel(heap, datasets.elevation[1])
                terrain   == cloned.terrain
                intensity == WeatheringIntensity(Head(queue),
                                 CalculateTotalWeatheringRate(weatheringRates))
            IN  /\ heap' = WeatherLoop(cloned.heap, datasets, terrain.elevationData,
                                       intensity, 0, terrain.width, terrain.height)
                /\ weatheredTerrain' = Some(terrain)
                /\ passStart' = Some(cloned.heap[terrain.elevationData])
                /\ slopeSeen' = << >>
                /\ pc' = "weathered"
                /\ UNCHANGED <<queue, models, lastError>>
    /\ UNCHANGED <<datasets, weatheringRates, loadPc, flowAccumulation, prior, pureVars>>

\* lines 303-309: the flow field, the accumulation and the erosion pass
SimulateErosion ==
    /\ pc = "weathered"
    /\ \E seed \in FlowSeeds :
         LET terrain        == weatheredTerrain[1]
             flowDirections == CalculateFlowDirections(terrain, seed)
             accumulation   == CalculateFlowAccumulation(flowDirections, terrain)
             eroded         == ApplyErosion(heap, datasets, terrain, accumulation,
                                            Head(queue))
         IN  /\ flowAccumulation' = Some(accumulation)
             /\ passStart' = Some(heap[terrain.elevationData])
             /\ heap' = eroded.heap
             /\ slopeSeen' = eroded.slopes
    /\ pc' = "eroded"
    /\ UNCHANGED <<datasets, weatheringRates, loadPc, queue, weatheredTerrain,
                   models, lastError, prior, pureVars>>

\* line 312: the deposition pass
SimulateDeposition ==
    /\ pc = "eroded"
    /\ LET terrain   == weatheredTerrain[1]
           deposited == ApplyDeposition(heap, datasets, terrain, flowAccumulation[1],
                                        Head(queue))
       IN  /\ passStart' = Some(heap[terrain.elevationData])
           /\ heap' = deposited.heap
           /\ slopeSeen' = deposited.slopes
    /\ pc' = "deposited"
    /\ UNCHANGED <<datasets, weatheringRates, loadPc, queue, weatheredTerrain,
                   models, flowAccumulation, lastError, prior, pureVars>>

\* the arrays still referenced once the call has handed its result over
Collect(h, refs) == [r \in (DOMAIN h) \cap refs |-> h[r]]

\* line 199 returns the terrain; line 157 stores it; line 160 returns models
ReturnTerrain ==
    /\ pc = "deposited"
    /\ LET terrain == weatheredTerrain[1]
           stored  == models @@ (Head(queue) :> terrain)
           base    == {datasets.elevation[1].elevationData}
       IN  /\ prior' = Some([years |-> Head(queue),
                             elevationData |-> heap[terrain.elevationData]])
           /\ IF Tail(queue) = << >>
              THEN /\ pc' = "idle"
                   /\ models' = << >>
                   /\ heap' = Collect(heap, base)
              ELSE /\ pc' = "project"
                   /\ models' = stored
                   /\ heap' = Collect(heap, base \cup
                                 {stored[k].elevationData : k \in DOMAIN stored})
    /\ queue' = Tail(queue)
    /\ weatheredTerrain' = Null
    /\ passStart' = Null
    /\ slopeSeen' = << >>
    /\ flowAccumulation' = Null
    /\ UNCHANGED <<datasets, weatheringRates, loadPc, lastError, pureVars>>

Next ==
    \/ LoadDatasets
    \/ ResumeElevation
    \/ ResumeGeology
    \/ ResumeClimate
    \/ ResumeVegetation
    \/ CalculateWeatheringRates
    \/ GenerateWeatheringModels
    \/ ProjectWeathering
    \/ CloneAndWeather
    \/ SimulateErosion
    \/ SimulateDeposition
    \/ ReturnTerrain

Spec == Init /\ [][Next]_vars

----------------------------------------------------------------------------
(* determineTimeSteps and calculateMineralReactivity called on their own *)

CallDetermineTimeSteps ==
    /\ \E maxYears \in MaxYearsSet :
         /\ maxYearsArg' = maxYears
         /\ stepsRet' = Some(DetermineTimeSteps(maxYears))
    /\ UNCHANGED <<sessionVars, compArg, reactRet>>

NextSteps == CallDetermineTimeSteps

SpecSteps == Init /\ [][NextSteps]_vars

\* a caller adds one property to the mineralComposition object
AddMineral ==
    /\ Len(compArg) < MaxMinerals
    /\ \E mineral \in MineralNames, percentage \in Abundances :
         /\ \A i \in 1..Len(compArg) : compArg[i][1] # mineral
         /\ compArg' = Append(compArg, <<mineral, percentage>>)
    /\ reactRet' = Null
    /\ UNCHANGED <<sessionVars, maxYearsArg, stepsRet>>

CallCalculateMineralReactivity ==
    /\ reactRet = Null
    /\ reactRet' = Some(CalculateMineralReactivity(compArg))
    /\ UNCHANGED <<sessionVars, maxYearsArg, stepsRet, compArg>>

NextMineral ==
    \/ AddMineral
    \/ CallCalculateMineralReactivity

SpecMineral == Init /\ [][NextMineral]_vars

----------------------------------------------------------------------------
(* What the claims speak of *)

\* the loaded elevation array and the array of the projection under way
Base == heap[datasets.elevation[1].elevationData]

Result == heap[weatheredTerrain[1].elevationData]

Years == Head(queue)

Cells == {<<x, y>> \in (0..(gridSize - 1)) \X (0..(gridSize - 1)) : TRUE}

At(grid, c) == grid[c[2] + 1][c[1] + 1]

InPass == pc \in {"weathered", "eroded", "deposited"}

Uniform(grid) == \A c \in Cells : At(grid, c) = At(grid, <<0, 0>>)

RatesComputed ==
    /\ weatheringRates.physical # Null
    /\ weatheringRates.chemical # Null
    /\ weatheringRates.biological # Null

Intensity == WeatheringIntensity(Years, CalculateTotalWeatheringRate(weatheringRates))

----------------------------------------------------------------------------
\* C1: no step of a projection changes the loaded elevation dataset: its
\* width, height, cellSize and array reference stay, and so does every cell
\* of the array; the writes land in the clone.
C1_BaseNeverMutated ==
    [][pc # "idle" =>
         /\ datasets' = datasets
         /\ datasets.elevation # Null =>
              heap'[datasets.elevation[1].elevationData] = Base]_vars

\* a projection over a positive time has changed its clone
C1_Witness ==
    /\ pc = "deposited"
    /\ Years > 0
    /\ \A c \in Cells : At(Result, c) < At(Base, c)

----------------------------------------------------------------------------
\* the ladder the claim names for maxYears
C2_Ladder(maxYears) ==
    IF maxYears <= 100 THEN {0, 10, 25, 50, 100}
    ELSE IF maxYears <= 1000 THEN {0, 100, 250, 500, 1000}
    ELSE {0, 1000, 5000, 10000, 50000, 100000}

\* C2: determineTimeSteps(maxYears) is exactly the members t <= maxYears of
\* the ladder of maxYears, in ascending order; determineTimeSteps(75) is
\* [0, 10, 25, 50].
C2_TimeSteps ==
    stepsRet # Null =>
        LET r == stepsRet[1]
        IN  /\ {r[i] : i \in 1..Len(r)} =
                  {t \in C2_Ladder(maxYearsArg) : t <= maxYearsArg}
            /\ \A i, j \in 1..Len(r) : i < j => r[i] < r[j]
            /\ maxYearsArg = 75 => r = <<0, 10, 25, 50>>

\* the inclusive boundary: maxYears is itself a member of its ladder
C2_Witness ==
    /\ stepsRet = Some(<<0, 100, 250, 500, 1000>>)
    /\ maxYearsArg = 1000

----------------------------------------------------------------------------
\* C3: in a projection of 0 years no pass changes a cell, and the returned
\* grid equals the loaded grid at every cell.
C3_ZeroYearsUnchanged ==
    (InPass /\ Years = 0) =>
        /\ Result = passStart[1]
        /\ Result = Base

\* a 0-year projection of a sloping grid under computed rates is returned
C3_Witness ==
    /\ pc = "deposited"
    /\ Years = 0
    /\ RatesComputed
    /\ \E c \in Cells : slopeSeen[c] > 0

----------------------------------------------------------------------------
\* C4: the erosion pass leaves every cell at or below its value before the
\* pass; the deposition pass leaves every cell at or above its value before
\* the pass and changes only cells whose computed slope is below 10 degrees.
C4_PassesMonotone ==
    /\ pc = "eroded" =>
         \A c \in Cells : At(Result, c) <= At(passStart[1], c)
    /\ pc = "deposited" =>
         \A c \in Cells :
            /\ At(Result, c) >= At(passStart[1], c)
            /\ At(Result, c) # At(passStart[1], c) => slopeSeen[c] < 10

\* a deposition pass that raised a flat cell and left a steep one alone
C4_Witness ==
    /\ pc = "deposited"
    /\ \E c \in Cells : slopeSeen[c] < 10 /\ At(Result, c) > At(passStart[1], c)
    /\ \E c \in Cells : slopeSeen[c] >= 10 /\ At(Result, c) = At(passStart[1], c)

----------------------------------------------------------------------------
\* 1000 * elevationFactor(e): 1 below 500 m, 1 + ((e - 500) / 2000) * 0.5 above
C5_ElevationFactor(e) ==
    IF e < 500 * Scale THEN 1000 ELSE 1000 + (e - 500 * Scale) \div (4 * Scale)

\* C5 as claimed: on a uniform grid of elevation e, projected once the load
\* has ended, the slope is 0 everywhere and every cell is lowered by exactly
\* intensity * elevationFactor(e).
C5_Original ==
    (pc = "deposited" /\ Uniform(Base) /\ RatesComputed /\ loadPc = 0) =>
        \A c \in Cells :
           /\ slopeSeen[c] = 0
           /\ At(Base, c) - At(Result, c) =
                 (Intensity * C5_ElevationFactor(At(Base, c))) \div 1000

\* C5 amended: on a uniform grid of elevation e the slope is 0 everywhere and
\* every cell is lowered by intensity * elevationFactor(e) less the
\* deposition 0.00002 * years, which the deposition pass adds to every cell.
C5_FlatGridLoss ==
    (pc = "deposited" /\ Uniform(Base)) =>
        \A c \in Cells :
           /\ slopeSeen[c] = 0
           /\ At(Base, c) - At(Result, c) =
                 (Intensity * C5_ElevationFactor(At(Base, c))) \div 1000
                   - Max(0, (2 * Years) \div 10)

\* a flat grid above 500 m projected over a positive time under computed rates
C5_Witness ==
    /\ pc = "deposited"
    /\ Uniform(Base)
    /\ At(Base, <<0, 0>>) > 500 * Scale
    /\ Years > 0
    /\ RatesComputed

----------------------------------------------------------------------------
\* a dataset is missing, or the mineral composition is empty
Malformed(ds) ==
    \/ ds.elevation = Null
    \/ ds.geology = Null
    \/ ds.climate = Null
    \/ ds.vegetation = Null
    \/ ds.geology[1].mineralComposition = << >>

\* C6: a rate calculation or a projection on missing or malformed datasets
\* ends in a validation error, writes no rate and makes no terrain.
C6_ValidationError ==
    [][((CalculateWeatheringRates \/ ResumeVegetation \/ CloneAndWeather)
          /\ Malformed(datasets')) =>
         /\ lastError' = "ValidationError"
         /\ weatheringRates' = weatheringRates
         /\ weatheredTerrain' = Null]_vars

----------------------------------------------------------------------------
\* sums over the entries whose mineral is in the reactivity table
RECURSIVE C7_Recognized(_)
C7_Recognized(entries) ==
    IF entries = << >> THEN [r |-> 0, p |-> 0]
    ELSE LET rest == C7_Recognized(Tail(entries))
             m    == Head(entries)[1]
             pct  == Head(entries)[2]
         IN  IF m \in {"quartz", "feldspar", "mica", "calcite", "dolomite"}
             THEN [r |-> rest.r + ReactivityTable[m] * pct, p |-> rest.p + pct]
             ELSE rest

\* C7: calculateMineralReactivity is the abundance-weighted average of the
\* reactivities of the recognized minerals alone, whatever other minerals the
\* composition names, and 0.5 when no recognized mineral has abundance.
C7_RecognizedAverage ==
    reactRet # Null =>
        LET tot == C7_Recognized(compArg)
        IN  /\ ~reactRet[1].nan
            /\ reactRet[1].val = IF tot.p > 0 THEN (tot.r * 10000) \div tot.p
                                 ELSE 50000

\* C7 for compositions that name no property of Object.prototype
C7_OwnNamesOnly ==
    (reactRet # Null /\ \A i \in 1..Len(compArg) : compArg[i][1] \notin InheritedNames)
        => C7_RecognizedAverage

----------------------------------------------------------------------------
\* C8: a projection returns the grid that the previous projection of the same
\* years returned under the same datasets and rates, whatever flow
\* directions either run drew.
C8_Deterministic ==
    (pc = "deposited" /\ prior # Null /\ prior[1].years = Years) =>
        Result = prior[1].elevationData

\* a second projection of the same positive years that changed its clone
C8_Witness ==
    /\ pc = "deposited"
    /\ prior # Null
    /\ prior[1].years = Years
    /\ Years > 0
    /\ Result # Base
    /\ \E c \in Cells : slopeSeen[c] > 0

----------------------------------------------------------------------------
\* C9: nothing is deposited before the erosion pass has ended, and (in a
\* projection made once the load has ended) the slope a pass uses for a cell
\* is the slope of the simulated grid as it stood when the pass started.
C9_SlopeOfSimulatedGrid ==
    /\ pc = "eroded" => \A c \in Cells : At(Result, c) <= At(passStart[1], c)
    /\ (pc \in {"eroded", "deposited"} /\ RatesComputed /\ loadPc = 0) =>
         \A c \in Cells :
            slopeSeen[c] = SlopeOf(passStart[1], weatheredTerrain[1].cellSize,
                                   c[1], c[2])

----------------------------------------------------------------------------
\* C10: whenever a projection can run (an elevation dataset is present), all
\* four datasets are resolved and the rates are those of these datasets.
C10_RatesOfCurrentDatasets ==
    (pc = "idle" /\ datasets.elevation # Null) =>
        /\ datasets.geology # Null
        /\ datasets.climate # Null
        /\ datasets.vegetation # Null
        /\ weatheringRates = RatesAfter(datasets, NoRates).rates

====
